---- MODULE Spec2Model ----
(***************************************************************************)
(* Pinch: the polling and recovery core.                                   *)
(*   usage_api.fetch_usage      - transport outcome -> UsageData           *)
(*   usage_monitor.UsageMonitor - poll_once, the background loop _run and  *)
(*                                the control surface (start, stop,        *)
(*                                update_interval, reconnect)              *)
(*   shared_state.SharedState   - the published snapshot                   *)
(*   settings                   - the persisted poll interval              *)
(* Strings are sequences of one-character strings so that formatting       *)
(* (f"HTTP {code}") and the substring test ("401" in data.error) are       *)
(* computed, not assumed.                                                  *)
(***************************************************************************)
EXTENDS Integers, Sequences, FiniteSets, TLC

\* ------------------------------------------------------------------ bounds
\* the background loop starts no further poll once its consecutive-error
\* counter has reached MaxErrors
MaxErrors == 8

\* registered callbacks
MaxCallbacks == 2

\* where poll_once is also called directly, the loop starts no further poll
\* once its consecutive-error counter has reached MaxDirectErrors
MaxDirectErrors == 2

\* poll intervals offered to the monitor: 5 (__main__._test_monitor) and the
\* default 30 (settings.DEFAULTS, config.POLL_INTERVAL_SECONDS)
Intervals == {5, 30}
\* HTTP statuses the server answers with an HTTPError
ErrorCodes == {401, 500}
\* utilization values carried by a well-formed response body
ServerUtilizations == {42}

\* --------------------------------------------------------------- constants
POLL_INTERVAL_SECONDS == 30
_AUTH_RETRY_DELAY == 5
_AUTH_MAX_RETRIES == 2
MAX_SLEEP_SECONDS == 300
BACKOFF_AFTER == 3

\* ----------------------------------------------------------------- strings
None == <<"None">>

NO_TOKEN_ERROR == <<"N","o"," ","O","A","u","t","h"," ","t","o","k","e","n"," ","U+2014"," ","i","s"," ","C","l","a","u","d","e"," ","C","o","d","e"," ","i","n","s","t","a","l","l","e","d","?">>

RECONNECT_ERROR == <<"T","o","k","e","n"," ","e","x","p","i","r","e","d"," ","U+2014"," ","o","p","e","n"," ","C","l","a","u","d","e"," ","C","o","d","e"," ","t","o"," ","r","e","f","r","e","s","h",","," ","t","h","e","n"," ","c","l","i","c","k"," ","R","e","c","o","n","n","e","c","t">>

SSL_ERROR == <<"S","S","L"," ","c","e","r","t","i","f","i","c","a","t","e"," ","e","r","r","o","r">>

CONNECTION_FAILED == <<"C","o","n","n","e","c","t","i","o","n"," ","f","a","i","l","e","d">>

\* str(exc.reason) values of a URLError: a certificate failure as the ssl
\* module words it, a timeout, and the empty reason
REASON_CERT == <<"C","E","R","T","I","F","I","C","A","T","E","_","V","E","R","I","F","Y">>

REASON_TIMEOUT == <<"t","i","m","e","d"," ","o","u","t">>

REASON_EMPTY == <<>>

Reasons == {REASON_CERT, REASON_TIMEOUT, REASON_EMPTY}

\* "sub in s" of Python strings
Contains(sub, s) ==
    \E i \in 1..(Len(s) - Len(sub) + 1) : SubSeq(s, i, i + Len(sub) - 1) = sub

\* str.lower() on the letters that occur in the reasons
LowerChar(c) ==
    CASE c = "C" -> "c" [] c = "E" -> "e" [] c = "R" -> "r" [] c = "T" -> "t"
      [] c = "I" -> "i" [] c = "F" -> "f" [] c = "A" -> "a" [] c = "V" -> "v"
      [] c = "Y" -> "y" [] OTHER -> c

Lower(s) == [i \in 1..Len(s) |-> LowerChar(s[i])]

DigitChar(d) ==
    CASE d = 0 -> "0" [] d = 1 -> "1" [] d = 2 -> "2" [] d = 3 -> "3"
      [] d = 4 -> "4" [] d = 5 -> "5" [] d = 6 -> "6" [] d = 7 -> "7"
      [] d = 8 -> "8" [] d = 9 -> "9"

\* decimal formatting of a natural number, as in f"{exc.code}"
RECURSIVE FormatInt(_)
FormatInt(n) ==
    IF n < 10 THEN <<DigitChar(n)>>
    ELSE Append(FormatInt(n \div 10), DigitChar(n % 10))

\* truthiness of an optional string: None and "" are false
Truthy(s) == s # None /\ Len(s) > 0

\* ------------------------------------------------------------- UsageData
\* shared_state.UsageData: the five_hour utilization stands for the buckets
UsageData(err, util) == [error |-> err, five_hour |-> util]

DefaultData == UsageData(None, 0)

\* variant: an error marker that carries the utilization of a reading
ErrorData_Stale(err) == UsageData(err, 42)

ErrorData(err) == UsageData(err, 0)

\* ------------------------------------------------------------ usage_api
\* what urlopen and the body decoding do for one request
TransportOutcomes ==
    [kind : {"http_error"}, code : ErrorCodes]
    \cup [kind : {"url_error"}, reason : Reasons]
    \cup [kind : {"exception"}]
    \cup [kind : {"body"}, utilization : ServerUtilizations]
    \cup [kind : {"bad_body"}]

\* fetch_usage raises when _parse_response does (it runs outside the try)
FetchRaises(o) == o.kind = "bad_body"

_parse_response(o) == UsageData(None, o.utilization)

\* variant: the reason is searched as it is spelled
fetch_usage_NoLower(o) ==
    CASE o.kind = "http_error" -> ErrorData(<<"H","T","T","P"," ">> \o FormatInt(o.code))
      [] o.kind = "url_error" ->
            LET reason == IF Len(o.reason) > 0 THEN o.reason
                          ELSE <<"U","n","k","n","o","w","n">>
            IN  IF Contains(<<"c","e","r","t","i","f","i","c","a","t","e">>, reason)
                THEN ErrorData(SSL_ERROR)
                ELSE ErrorData(CONNECTION_FAILED)
      [] o.kind = "exception" -> ErrorData(CONNECTION_FAILED)
      [] o.kind = "body" -> _parse_response(o)

fetch_usage(o) ==
    CASE o.kind = "http_error" -> ErrorData(<<"H","T","T","P"," ">> \o FormatInt(o.code))
      [] o.kind = "url_error" ->
            LET reason == IF Len(o.reason) > 0 THEN o.reason
                          ELSE <<"U","n","k","n","o","w","n">>
            IN  IF Contains(<<"c","e","r","t","i","f","i","c","a","t","e">>, Lower(reason))
                THEN ErrorData(SSL_ERROR)
                ELSE ErrorData(CONNECTION_FAILED)
      [] o.kind = "exception" -> ErrorData(CONNECTION_FAILED)
      [] o.kind = "body" -> _parse_response(o)

\* data.error and "401" in data.error
Is401(data) == Truthy(data.error) /\ Contains(<<"4","0","1">>, data.error)

\* ------------------------------------------------------------------ state
Callers == {"loop", "direct"}

HealthStatuses == {"ok", "expiring", "expired", "missing"}

VARIABLES
    settings_file,        \* settings.load()["poll_interval"]
    interval,             \* UsageMonitor._interval
    stop_event,           \* UsageMonitor._stop_event
    force_poll,           \* UsageMonitor._force_poll
    pc,                   \* position of the UsageMonitor thread in _run
    consecutive_errors,   \* local of _run
    sleep_time,           \* local of _run
    wait_expired,         \* the timeout of the wait in progress has elapsed
    wake_reason,          \* what ended the last wait: "signal" or "timeout"
    poll,                 \* per caller: the frame of poll_once
    state_data,           \* SharedState._data
    stop_pc,              \* position of the caller of stop()
    errs_since_success,   \* error snapshots the loop published since its last success
    upd,                  \* the last update_interval call
    rc_in_sleep,          \* reconnect() hit a blocked wait that has not returned yet
    rc_in_poll,           \* reconnect() came while the loop's fetch was in flight, and the
                          \* sleep after that poll has not returned yet
    stop_in_poll,         \* stop() signalled while the loop's fetch was in flight, and the
                          \* sleep after that poll has not returned yet
    stop_in_sleep,        \* stop() signalled a blocked wait of the running loop
    callbacks,            \* SharedState._callbacks: the kind of each registered callback
    lock,                 \* SharedState._lock: "free" or the caller holding it
    stored_arg,           \* the argument of the update() whose swap came last
    fresh,                \* per callback: its last snapshot came from the latest swap
    got,                  \* what the last get() returned; again: no swap since the get before
    dirty,                \* a swap has happened since that get()
    probe                 \* one call of a function of auth or usage_api: its
                          \* arguments and, once it has returned, its result

vars == <<settings_file, interval, stop_event, force_poll, pc, consecutive_errors,
          sleep_time, wait_expired, wake_reason, poll, state_data, stop_pc,
          errs_since_success, upd, rc_in_sleep, rc_in_poll, stop_in_poll, stop_in_sleep, callbacks, lock,
          stored_arg, fresh, got, dirty, probe>>

monitorVars == <<interval, stop_event, force_poll>>

loopVars == <<pc, consecutive_errors, sleep_time, wait_expired, wake_reason>>

histVars == <<errs_since_success, upd, rc_in_sleep, rc_in_poll, stop_in_poll, stop_in_sleep>>

subsVars == <<callbacks, lock, stored_arg, fresh, got, dirty>>

IdlePoll ==
    [pc |-> "idle", data |-> DefaultData, attempt |-> 0, health |-> "none",
     reads |-> <<>>, fetches |-> <<>>, calls |-> 0, pubs |-> <<>>,
     idx |-> 0, n_at_swap |-> 0, superseded |-> FALSE, sent |-> <<>>,
     used |-> <<>>, delay |-> 0, elapsed |-> FALSE]

\* no get() has returned yet
NoGet == [valid |-> FALSE, data |-> DefaultData, again |-> FALSE]

NoUpdate == [n |-> 0, age |-> 2, in_sleep |-> FALSE]

\* UsageMonitor.__init__ and SharedState.__init__
InitMonitor ==
    /\ \E i \in Intervals \cup {0} :
          interval = IF i # 0 THEN i ELSE POLL_INTERVAL_SECONDS
    /\ stop_event = FALSE
    /\ force_poll = FALSE
    /\ pc = "idle"
    /\ consecutive_errors = 0
    /\ sleep_time = 0
    /\ wait_expired = FALSE
    /\ wake_reason = "none"
    /\ poll = [c \in Callers |-> IdlePoll]
    /\ state_data = DefaultData
    /\ stop_pc = "idle"
    /\ errs_since_success = 0
    /\ upd = NoUpdate
    /\ rc_in_sleep = FALSE
    /\ rc_in_poll = FALSE
    /\ stop_in_poll = FALSE
    /\ stop_in_sleep = FALSE
    /\ callbacks = <<>>
    /\ lock = "free"
    /\ stored_arg = DefaultData
    /\ fresh = <<>>
    /\ got = NoGet
    /\ dirty = FALSE

\* no function is probed while the monitor runs
NoProbe == [fn |-> "none"]

Init ==
    /\ settings_file \in Intervals
    /\ InitMonitor
    /\ probe = NoProbe

\* ------------------------------------------------------------- poll_once
Min(a, b) == IF a < b THEN a ELSE b

\* variant: the result of the retries is replaced whatever it is
AfterRetries_Always(data) == ErrorData(RECONNECT_ERROR)

\* variant: the 401 that outlived the retries is published as it is
AfterRetries_Keep(data) == data

\* lines 113-117: a result that is still a 401 becomes the reconnect error
AfterRetries(data) ==
    IF Is401(data) THEN ErrorData(RECONNECT_ERROR) ELSE data

\* the for loop of lines 95-111 moves to its next attempt, or ends
NextAttempt(f) ==
    IF f.attempt < _AUTH_MAX_RETRIES
    THEN [f EXCEPT !.attempt = f.attempt + 1, !.pc = "retry_sleep",
                   !.delay = _AUTH_RETRY_DELAY, !.elapsed = FALSE]
    ELSE [f EXCEPT !.data = AfterRetries(f.data), !.pc = "publish"]

\* entry of poll_once
PollBegin(c) == [poll EXCEPT ![c] = [IdlePoll EXCEPT !.pc = "health"]]

\* variant: `missing` is only logged, like `expired`
PollHealth_MissingProceeds(c) ==
    /\ poll[c].pc = "health"
    /\ \E status \in HealthStatuses :
          poll' = [poll EXCEPT ![c] = [@ EXCEPT !.health = status, !.pc = "read"]]
    /\ UNCHANGED <<settings_file, monitorVars, loopVars, state_data, stop_pc,
                   histVars>>
    /\ UNCHANGED <<subsVars, probe>>

\* variant: `expired` ends the poll like `missing`
PollHealth_ExpiredSkips(c) ==
    /\ poll[c].pc = "health"
    /\ \E status \in HealthStatuses :
          poll' = [poll EXCEPT ![c] =
                     IF status \in {"missing", "expired"}
                     THEN [@ EXCEPT !.health = status,
                                    !.data = ErrorData(NO_TOKEN_ERROR),
                                    !.pc = "publish"]
                     ELSE [@ EXCEPT !.health = status, !.pc = "read"]]
    /\ UNCHANGED <<settings_file, monitorVars, loopVars, state_data, stop_pc,
                   histVars>>
    /\ UNCHANGED <<subsVars, probe>>

\* lines 73-82: check_token_health
PollHealth(c) ==
    /\ poll[c].pc = "health"
    /\ \E status \in HealthStatuses :
          poll' = [poll EXCEPT ![c] =
                     IF status = "missing"
                     THEN [@ EXCEPT !.health = status,
                                    !.data = ErrorData(NO_TOKEN_ERROR),
                                    !.pc = "publish"]
                     ELSE [@ EXCEPT !.health = status, !.pc = "read"]]
    /\ UNCHANGED <<settings_file, monitorVars, loopVars, state_data, stop_pc,
                   histVars>>
    /\ UNCHANGED <<subsVars, probe>>

\* lines 85-89: read_access_token
PollReadToken(c) ==
    /\ poll[c].pc = "read"
    /\ \E token \in BOOLEAN :
          poll' = [poll EXCEPT ![c] =
                     IF ~token
                     THEN [@ EXCEPT !.reads = Append(@, token),
                                    !.data = ErrorData(NO_TOKEN_ERROR),
                                    !.pc = "publish"]
                     ELSE [@ EXCEPT !.reads = Append(@, token), !.pc = "fetch"]]
    /\ UNCHANGED <<settings_file, monitorVars, loopVars, state_data, stop_pc,
                   histVars>>
    /\ UNCHANGED <<subsVars, probe>>

\* variant: the answer of the first fetch is handed to update before the retries
PollFetch_PublishesEach(c) ==
    /\ poll[c].pc = "fetch"
    /\ \E o \in TransportOutcomes :
          IF FetchRaises(o)
          THEN /\ poll' = [poll EXCEPT ![c].calls = @ + 1,
                                       ![c].used = Append(@, Len(poll[c].reads)),
                                       ![c].pc = "raised"]
               /\ UNCHANGED state_data
          ELSE LET data == fetch_usage(o)
                   f == [poll[c] EXCEPT !.calls = @ + 1,
                                        !.used = Append(@, Len(poll[c].reads)),
                                        !.fetches = Append(@, data),
                                        !.data = data]
               IN  IF Is401(data)
                   THEN /\ poll' = [poll EXCEPT ![c] =
                                      NextAttempt([f EXCEPT !.pubs = Append(@, data)])]
                        /\ state_data' = data
                   ELSE /\ poll' = [poll EXCEPT ![c] = [f EXCEPT !.pc = "publish"]]
                        /\ UNCHANGED state_data
    /\ UNCHANGED <<settings_file, monitorVars, loopVars, stop_pc, histVars>>
    /\ UNCHANGED <<subsVars, probe>>

\* variant: the answer of the first fetch is published whatever it is
PollFetch_NoRetry(c) ==
    /\ poll[c].pc = "fetch"
    /\ \E o \in TransportOutcomes :
          poll' = [poll EXCEPT ![c] =
                     IF FetchRaises(o)
                     THEN [@ EXCEPT !.calls = @ + 1,
                                    !.used = Append(@, Len(poll[c].reads)),
                                    !.pc = "raised"]
                     ELSE LET data == fetch_usage(o)
                          IN  [@ EXCEPT !.calls = @ + 1,
                                        !.used = Append(@, Len(poll[c].reads)),
                                        !.fetches = Append(@, data),
                                        !.data = data,
                                        !.pc = "publish"]]
    /\ UNCHANGED <<settings_file, monitorVars, loopVars, state_data, stop_pc,
                   histVars>>
    /\ UNCHANGED <<subsVars, probe>>

\* lines 91-95: the first fetch
PollFetch(c) ==
    /\ poll[c].pc = "fetch"
    /\ \E o \in TransportOutcomes :
          poll' = [poll EXCEPT ![c] =
                     IF FetchRaises(o)
                     THEN [@ EXCEPT !.calls = @ + 1,
                                    !.used = Append(@, Len(poll[c].reads)),
                                    !.pc = "raised"]
                     ELSE LET data == fetch_usage(o)
                              f == [@ EXCEPT !.calls = @ + 1,
                                             !.used = Append(@, Len(poll[c].reads)),
                                             !.fetches = Append(@, data),
                                             !.data = data]
                          IN  IF Is401(data)
                              THEN NextAttempt(f)
                              ELSE [f EXCEPT !.pc = "publish"]]
    /\ UNCHANGED <<settings_file, monitorVars, loopVars, state_data, stop_pc,
                   histVars>>
    /\ UNCHANGED <<subsVars, probe>>

\* line 100: the delay of the time.sleep in progress runs out
PollRetryElapse(c) ==
    /\ poll[c].pc = "retry_sleep"
    /\ ~poll[c].elapsed
    /\ poll' = [poll EXCEPT ![c].elapsed = TRUE]
    /\ UNCHANGED <<settings_file, monitorVars, loopVars, state_data, stop_pc,
                   histVars>>
    /\ UNCHANGED <<subsVars, probe>>

\* line 100: time.sleep(_AUTH_RETRY_DELAY) returns, its delay over
PollRetrySleep(c) ==
    /\ poll[c].pc = "retry_sleep"
    /\ poll[c].elapsed
    /\ poll' = [poll EXCEPT ![c].pc = "retry_read", ![c].delay = 0,
                            ![c].elapsed = FALSE]
    /\ UNCHANGED <<settings_file, monitorVars, loopVars, state_data, stop_pc,
                   histVars>>
    /\ UNCHANGED <<subsVars, probe>>

\* variant: a re-read that returns no token ends the poll with the
\* missing-credential error, as the first read does
PollRetryRead_MissingEnds(c) ==
    /\ poll[c].pc = "retry_read"
    /\ \E token \in BOOLEAN :
          poll' = [poll EXCEPT ![c] =
                     IF ~token
                     THEN [@ EXCEPT !.reads = Append(@, token),
                                    !.data = ErrorData(NO_TOKEN_ERROR),
                                    !.pc = "publish"]
                     ELSE [@ EXCEPT !.reads = Append(@, token),
                                    !.pc = "retry_fetch"]]
    /\ UNCHANGED <<settings_file, monitorVars, loopVars, state_data, stop_pc,
                   histVars>>
    /\ UNCHANGED <<subsVars, probe>>

\* lines 103-105: the token is read again; without one the attempt is over
PollRetryRead(c) ==
    /\ poll[c].pc = "retry_read"
    /\ \E token \in BOOLEAN :
          poll' = [poll EXCEPT ![c] =
                     IF ~token
                     THEN NextAttempt([@ EXCEPT !.reads = Append(@, token)])
                     ELSE [@ EXCEPT !.reads = Append(@, token),
                                    !.pc = "retry_fetch"]]
    /\ UNCHANGED <<settings_file, monitorVars, loopVars, state_data, stop_pc,
                   histVars>>
    /\ UNCHANGED <<subsVars, probe>>

\* variant: the retried fetch sends the token of the first read again
PollRetryFetch_FirstToken(c) ==
    /\ poll[c].pc = "retry_fetch"
    /\ \E o \in TransportOutcomes :
          poll' = [poll EXCEPT ![c] =
                     IF FetchRaises(o)
                     THEN [@ EXCEPT !.calls = @ + 1,
                                    !.used = Append(@, 1),
                                    !.pc = "raised"]
                     ELSE LET data == fetch_usage(o)
                              f == [@ EXCEPT !.calls = @ + 1,
                                             !.used = Append(@, 1),
                                             !.fetches = Append(@, data),
                                             !.data = data]
                          IN  IF ~Is401(data)
                              THEN [f EXCEPT !.data = AfterRetries(data),
                                             !.pc = "publish"]
                              ELSE NextAttempt(f)]
    /\ UNCHANGED <<settings_file, monitorVars, loopVars, state_data, stop_pc,
                   histVars>>
    /\ UNCHANGED <<subsVars, probe>>

\* variant: only a success leaves the retry loop
PollRetryFetch_UntilSuccess(c) ==
    /\ poll[c].pc = "retry_fetch"
    /\ \E o \in TransportOutcomes :
          poll' = [poll EXCEPT ![c] =
                     IF FetchRaises(o)
                     THEN [@ EXCEPT !.calls = @ + 1,
                                    !.used = Append(@, Len(poll[c].reads)),
                                    !.pc = "raised"]
                     ELSE LET data == fetch_usage(o)
                              f == [@ EXCEPT !.calls = @ + 1,
                                             !.used = Append(@, Len(poll[c].reads)),
                                             !.fetches = Append(@, data),
                                             !.data = data]
                          IN  IF ~Truthy(data.error)
                              THEN [f EXCEPT !.pc = "publish"]
                              ELSE NextAttempt(f)]
    /\ UNCHANGED <<settings_file, monitorVars, loopVars, state_data, stop_pc,
                   histVars>>
    /\ UNCHANGED <<subsVars, probe>>

\* lines 107-111: the retried fetch; anything but a 401 leaves the loop
PollRetryFetch(c) ==
    /\ poll[c].pc = "retry_fetch"
    /\ \E o \in TransportOutcomes :
          poll' = [poll EXCEPT ![c] =
                     IF FetchRaises(o)
                     THEN [@ EXCEPT !.calls = @ + 1,
                                    !.used = Append(@, Len(poll[c].reads)),
                                    !.pc = "raised"]
                     ELSE LET data == fetch_usage(o)
                              f == [@ EXCEPT !.calls = @ + 1,
                                             !.used = Append(@, Len(poll[c].reads)),
                                             !.fetches = Append(@, data),
                                             !.data = data]
                          IN  IF ~Is401(data)
                              THEN [f EXCEPT !.data = AfterRetries(data),
                                             !.pc = "publish"]
                              ELSE NextAttempt(f)]
    /\ UNCHANGED <<settings_file, monitorVars, loopVars, state_data, stop_pc,
                   histVars>>
    /\ UNCHANGED <<subsVars, probe>>

\* ---------------------------------------------------- SharedState.update
CallbackKinds == {"ok", "fail"}

\* the frames of update() that another swap leaves behind
Supersede(f) == IF f.pc = "notify" THEN [f EXCEPT !.superseded = TRUE] ELSE f

\* variant: update() stores the error of the new snapshot and keeps the
\* usage of the held one
PollPublish_ErrorOnly(c) ==
    /\ poll[c].pc = "publish"
    /\ lock = "free"
    /\ state_data' = [state_data EXCEPT !.error = poll[c].data.error]
    /\ stored_arg' = poll[c].data
    /\ poll' = [d \in Callers |->
                  IF d = c
                  THEN [poll[c] EXCEPT !.pubs = Append(@, poll[c].data),
                                       !.pc = "notify",
                                       !.idx = 1,
                                       !.n_at_swap = Len(callbacks),
                                       !.superseded = FALSE]
                  ELSE Supersede(poll[d])]
    /\ fresh' = [k \in DOMAIN fresh |-> FALSE]
    /\ dirty' = got.valid
    /\ UNCHANGED <<settings_file, monitorVars, loopVars, stop_pc, histVars,
                   callbacks, lock, got>>
    /\ UNCHANGED probe

\* variant: update() keeps the lock while it calls the callbacks
PollPublish_KeepsLock(c) ==
    /\ poll[c].pc = "publish"
    /\ lock = "free"
    /\ lock' = c
    /\ state_data' = poll[c].data
    /\ stored_arg' = poll[c].data
    /\ poll' = [d \in Callers |->
                  IF d = c
                  THEN [poll[c] EXCEPT !.pubs = Append(@, poll[c].data),
                                       !.pc = "notify",
                                       !.idx = 1,
                                       !.n_at_swap = Len(callbacks),
                                       !.superseded = FALSE]
                  ELSE Supersede(poll[d])]
    /\ fresh' = [k \in DOMAIN fresh |-> FALSE]
    /\ dirty' = got.valid
    /\ UNCHANGED <<settings_file, monitorVars, loopVars, stop_pc, histVars,
                   callbacks, got>>
    /\ UNCHANGED probe

\* lines 81, 88, 120 call self._state.update(data); shared_state.py lines
\* 55-56: under the lock, self._data = data
PollPublish(c) ==
    /\ poll[c].pc = "publish"
    /\ lock = "free"
    /\ state_data' = poll[c].data
    /\ stored_arg' = poll[c].data
    /\ poll' = [d \in Callers |->
                  IF d = c
                  THEN [poll[c] EXCEPT !.pubs = Append(@, poll[c].data),
                                       !.pc = "notify",
                                       !.idx = 1,
                                       !.n_at_swap = Len(callbacks),
                                       !.superseded = FALSE]
                  ELSE Supersede(poll[d])]
    /\ fresh' = [k \in DOMAIN fresh |-> FALSE]
    /\ dirty' = got.valid
    /\ UNCHANGED <<settings_file, monitorVars, loopVars, stop_pc, histVars,
                   callbacks, lock, got>>
    /\ UNCHANGED probe

\* variant: no try around the call, what a callback raises leaves update()
PollNotify_NoCatch(c) ==
    /\ poll[c].pc = "notify"
    /\ IF poll[c].idx <= Len(callbacks)
       THEN /\ poll' = [poll EXCEPT ![c].idx = @ + 1,
                                    ![c].sent = Append(@, poll[c].data),
                                    ![c].pc = IF callbacks[poll[c].idx] = "fail"
                                              THEN "raised" ELSE "notify"]
            /\ fresh' = [fresh EXCEPT ![poll[c].idx] = ~poll[c].superseded]
            /\ UNCHANGED errs_since_success
       ELSE /\ poll' = [poll EXCEPT ![c].pc = "returned"]
            /\ errs_since_success' =
                  IF c # "loop" \/ pc # "polling" THEN errs_since_success
                  ELSE IF Truthy(poll[c].data.error) THEN errs_since_success + 1
                  ELSE 0
            /\ UNCHANGED fresh
    /\ UNCHANGED <<settings_file, monitorVars, loopVars, state_data, stop_pc,
                   upd, rc_in_sleep, rc_in_poll, stop_in_poll, stop_in_sleep, callbacks, lock, stored_arg,
                   got, dirty>>
    /\ UNCHANGED probe

\* shared_state.py lines 57-61: one step of `for cb in self._callbacks`, which
\* walks the list itself by index: the next callback is called with data and
\* what it raises is logged; past the end of the list update() returns, and
\* poll_once returns data (line 121)
PollNotify(c) ==
    /\ poll[c].pc = "notify"
    /\ IF poll[c].idx <= Len(callbacks)
       THEN /\ poll' = [poll EXCEPT ![c].idx = @ + 1,
                                    ![c].sent = Append(@, poll[c].data)]
            /\ fresh' = [fresh EXCEPT ![poll[c].idx] = ~poll[c].superseded]
            /\ UNCHANGED errs_since_success
       ELSE /\ poll' = [poll EXCEPT ![c].pc = "returned"]
            /\ errs_since_success' =
                  IF c # "loop" \/ pc # "polling" THEN errs_since_success
                  ELSE IF Truthy(poll[c].data.error) THEN errs_since_success + 1
                  ELSE 0
            /\ UNCHANGED fresh
    /\ UNCHANGED <<settings_file, monitorVars, loopVars, state_data, stop_pc,
                   upd, rc_in_sleep, rc_in_poll, stop_in_poll, stop_in_sleep, callbacks, lock, stored_arg,
                   got, dirty>>
    /\ UNCHANGED probe

\* variant: get() hands the held snapshot out and puts the default in its place
Get_Consumes ==
    /\ lock = "free"
    /\ got' = [valid |-> TRUE, data |-> state_data,
               again |-> (got.valid /\ ~dirty)]
    /\ dirty' = FALSE
    /\ state_data' = DefaultData
    /\ UNCHANGED <<settings_file, monitorVars, loopVars, poll, stop_pc, histVars,
                   callbacks, lock, stored_arg, fresh>>
    /\ UNCHANGED probe

\* shared_state.py lines 63-66: get(), by any thread, a running callback included
Get ==
    /\ lock = "free"
    /\ got' = [valid |-> TRUE, data |-> state_data,
               again |-> (got.valid /\ ~dirty)]
    /\ dirty' = FALSE
    /\ UNCHANGED <<settings_file, monitorVars, loopVars, poll, state_data,
                   stop_pc, histVars, callbacks, lock, stored_arg, fresh>>
    /\ UNCHANGED probe

\* variant: on_change keeps one subscriber, the one registered last
OnChange_Replaces(kind) ==
    /\ Len(callbacks) < MaxCallbacks
    /\ callbacks' = <<kind>>
    /\ fresh' = <<FALSE>>
    /\ UNCHANGED <<settings_file, monitorVars, loopVars, poll, state_data,
                   stop_pc, histVars, lock, stored_arg, got, dirty>>
    /\ UNCHANGED probe

\* shared_state.py lines 68-70: on_change(callback), by any thread, a running
\* callback included
OnChange(kind) ==
    /\ Len(callbacks) < MaxCallbacks
    /\ callbacks' = Append(callbacks, kind)
    /\ fresh' = Append(fresh, FALSE)
    /\ UNCHANGED <<settings_file, monitorVars, loopVars, poll, state_data,
                   stop_pc, histVars, lock, stored_arg, got, dirty>>
    /\ UNCHANGED probe

\* ------------------------------------------------------------------ _run
\* variant: the backoff is not capped
SleepTime_Uncapped(base, count) ==
    IF count > BACKOFF_AFTER
    THEN base * (2 ^ (count - BACKOFF_AFTER))
    ELSE base

\* lines 141-144: the sleep that follows a cycle
SleepTime(base, count) ==
    IF count > BACKOFF_AFTER
    THEN Min(base * (2 ^ (count - BACKOFF_AFTER)), MAX_SLEEP_SECONDS)
    ELSE base

\* variant: the missing-credential error, which made no network call, is
\* not counted
Classify_NetworkOnly(count, data) ==
    IF ~Truthy(data.error) THEN 0
    ELSE IF data.error = NO_TOKEN_ERROR THEN count
    ELSE count + 1

\* lines 129-135: the consecutive-error counter after a poll returned data
Classify(count, data) ==
    IF Truthy(data.error) THEN count + 1 ELSE 0

\* line 126: while not self._stop_event.is_set(), then line 127 enters poll_once
LoopTop ==
    /\ pc = "top"
    /\ ~stop_event => consecutive_errors < MaxErrors
    /\ IF stop_event
       THEN /\ pc' = "done"
            /\ UNCHANGED <<poll, upd>>
       ELSE /\ pc' = "polling"
            /\ poll' = PollBegin("loop")
            /\ upd' = IF upd.age = 0 THEN [upd EXCEPT !.age = 1] ELSE NoUpdate
    /\ wake_reason' = "none"
    /\ rc_in_sleep' = FALSE
    /\ rc_in_poll' = FALSE
    /\ stop_in_poll' = FALSE
    /\ stop_in_sleep' = FALSE
    /\ UNCHANGED <<settings_file, monitorVars, consecutive_errors, sleep_time,
                   wait_expired, state_data, stop_pc, errs_since_success>>
    /\ UNCHANGED <<subsVars, probe>>

\* variant: the counter is computed from what SharedState holds
LoopClassify_Shared ==
    /\ pc = "polling"
    /\ poll["loop"].pc = "returned"
    /\ consecutive_errors' = Classify(consecutive_errors, state_data)
    /\ poll' = [poll EXCEPT !["loop"] = IdlePoll]
    /\ pc' = "load"
    /\ UNCHANGED <<settings_file, monitorVars, sleep_time, wait_expired, wake_reason,
                   state_data, stop_pc, histVars>>
    /\ UNCHANGED <<subsVars, probe>>

\* variant: every unauthorized retry of the cycle counts as an error of its own
LoopClassify_CountsRetries ==
    /\ pc = "polling"
    /\ poll["loop"].pc = "returned"
    /\ consecutive_errors' =
          IF Truthy(poll["loop"].data.error)
          THEN consecutive_errors + 1 + poll["loop"].attempt
          ELSE 0
    /\ poll' = [poll EXCEPT !["loop"] = IdlePoll]
    /\ pc' = "load"
    /\ UNCHANGED <<settings_file, monitorVars, sleep_time, wait_expired, wake_reason,
                   state_data, stop_pc, histVars>>
    /\ UNCHANGED <<subsVars, probe>>

\* lines 127-135: poll_once returned; the counter is updated
LoopClassify ==
    /\ pc = "polling"
    /\ poll["loop"].pc = "returned"
    /\ consecutive_errors' = Classify(consecutive_errors, poll["loop"].data)
    /\ poll' = [poll EXCEPT !["loop"] = IdlePoll]
    /\ pc' = "load"
    /\ UNCHANGED <<settings_file, monitorVars, sleep_time, wait_expired, wake_reason,
                   state_data, stop_pc, histVars>>
    /\ UNCHANGED <<subsVars, probe>>

\* line 127: poll_once raised; nothing in _run catches it and the thread ends
LoopCrash ==
    /\ pc = "polling"
    /\ poll["loop"].pc = "raised"
    /\ poll' = [poll EXCEPT !["loop"] = IdlePoll]
    /\ pc' = "crashed"
    /\ rc_in_poll' = FALSE
    /\ stop_in_poll' = FALSE
    /\ UNCHANGED <<settings_file, monitorVars, consecutive_errors, sleep_time,
                   wait_expired, wake_reason, state_data, stop_pc,
                   errs_since_success, upd, rc_in_sleep, stop_in_sleep>>
    /\ UNCHANGED <<subsVars, probe>>

\* lines 138-139: the interval is read again from the settings file
LoopLoadSettings ==
    /\ pc = "load"
    /\ interval' = settings_file
    /\ pc' = "compute"
    /\ UNCHANGED <<settings_file, stop_event, force_poll, consecutive_errors,
                   sleep_time, wait_expired, wake_reason, poll, state_data, stop_pc,
                   histVars>>
    /\ UNCHANGED <<subsVars, probe>>

\* lines 142-144
LoopComputeSleep ==
    /\ pc = "compute"
    /\ sleep_time' = SleepTime(interval, consecutive_errors)
    /\ pc' = "clear"
    /\ UNCHANGED <<settings_file, monitorVars, consecutive_errors, wait_expired,
                   wake_reason, poll, state_data, stop_pc, histVars>>
    /\ UNCHANGED <<subsVars, probe>>

\* line 147: self._force_poll.clear(); the thread then enters wait(sleep_time)
LoopClear ==
    /\ pc = "clear"
    /\ force_poll' = FALSE
    /\ wait_expired' = (sleep_time <= 0)
    /\ pc' = "wait"
    /\ UNCHANGED <<settings_file, interval, stop_event, consecutive_errors,
                   sleep_time, wake_reason, poll, state_data, stop_pc,
                   histVars>>
    /\ UNCHANGED <<subsVars, probe>>

\* sleep_time seconds go by with the thread still blocked in the wait
TimePasses ==
    /\ pc = "wait"
    /\ ~force_poll
    /\ ~wait_expired
    /\ wait_expired' = TRUE
    /\ UNCHANGED <<settings_file, monitorVars, pc, consecutive_errors, sleep_time,
                   wake_reason, poll, state_data, stop_pc, histVars>>
    /\ UNCHANGED <<subsVars, probe>>

\* line 148: Event.wait returns, the flag being set or the timeout over; the
\* local sleep_time is dead from here on
LoopWaitReturn ==
    /\ pc = "wait"
    /\ force_poll \/ wait_expired
    /\ wake_reason' = IF force_poll THEN "signal" ELSE "timeout"
    /\ pc' = "check"
    /\ sleep_time' = 0
    /\ wait_expired' = FALSE
    /\ upd' = [upd EXCEPT !.in_sleep = FALSE]
    /\ rc_in_poll' = FALSE
    /\ stop_in_poll' = FALSE
    /\ UNCHANGED <<settings_file, monitorVars, consecutive_errors, poll, state_data,
                   stop_pc, errs_since_success, rc_in_sleep,
                   stop_in_sleep>>
    /\ UNCHANGED <<subsVars, probe>>

\* variant: a wait that a signal ended also ends the loop
LoopCheckStop_OnSignal ==
    /\ pc = "check"
    /\ pc' = IF stop_event \/ wake_reason = "signal" THEN "done" ELSE "top"
    /\ rc_in_sleep' = (rc_in_sleep /\ ~stop_event)
    /\ UNCHANGED <<rc_in_poll, stop_in_poll>>
    /\ UNCHANGED <<settings_file, monitorVars, consecutive_errors, sleep_time,
                   wait_expired, wake_reason, poll, state_data, stop_pc,
                   errs_since_success, upd, stop_in_sleep>>
    /\ UNCHANGED <<subsVars, probe>>

\* lines 149-150: if self._stop_event.is_set(): break
LoopCheckStop ==
    /\ pc = "check"
    /\ pc' = IF stop_event THEN "done" ELSE "top"
    /\ rc_in_sleep' = (rc_in_sleep /\ ~stop_event)
    /\ UNCHANGED <<rc_in_poll, stop_in_poll>>
    /\ UNCHANGED <<settings_file, monitorVars, consecutive_errors, sleep_time,
                   wait_expired, wake_reason, poll, state_data, stop_pc,
                   errs_since_success, upd, stop_in_sleep>>
    /\ UNCHANGED <<subsVars, probe>>

\* ------------------------------------------------------- control surface
Running == pc \notin {"idle", "done", "crashed"}

Blocked == pc = "wait" /\ ~force_poll /\ ~wait_expired

\* variant: start() clears the stop event before it starts the thread
Start_ClearsStop ==
    /\ ~Running
    /\ pc' = "top"
    /\ stop_event' = FALSE
    /\ consecutive_errors' = 0
    /\ errs_since_success' = 0
    /\ stop_in_sleep' = FALSE
    /\ UNCHANGED <<settings_file, interval, force_poll, sleep_time, wait_expired,
                   wake_reason, poll, state_data, stop_pc, upd, rc_in_sleep,
                   rc_in_poll, stop_in_poll>>
    /\ UNCHANGED <<subsVars, probe>>

\* start(): a new thread runs _run, whose counter starts at 0
Start ==
    /\ ~Running
    /\ pc' = "top"
    /\ consecutive_errors' = 0
    /\ errs_since_success' = 0
    /\ stop_in_sleep' = FALSE
    /\ UNCHANGED <<settings_file, monitorVars, sleep_time, wait_expired, wake_reason,
                   poll, state_data, stop_pc, upd, rc_in_sleep, rc_in_poll, stop_in_poll>>
    /\ UNCHANGED <<subsVars, probe>>

\* the loop thread is inside fetch_usage (lines 91, 107)
FetchInFlight ==
    /\ pc = "polling"
    /\ poll["loop"].pc \in {"fetch", "retry_fetch"}

\* variant: stop() asks for a poll and joins, the stop event stays as it was
StopSetStop_NoEvent ==
    /\ stop_pc = "idle"
    /\ stop_pc' = "set_force"
    /\ UNCHANGED <<settings_file, monitorVars, loopVars, poll, state_data,
                   histVars>>
    /\ UNCHANGED <<subsVars, probe>>

\* stop(), line 50: self._stop_event.set()
StopSetStop ==
    /\ stop_pc = "idle"
    /\ stop_event' = TRUE
    /\ stop_pc' = "set_force"
    /\ UNCHANGED <<settings_file, interval, force_poll, loopVars, poll, state_data,
                   histVars>>
    /\ UNCHANGED <<subsVars, probe>>

\* variant: stop() sets the stop event only
StopSetForce_Missing ==
    /\ stop_pc = "set_force"
    /\ stop_pc' = "join"
    /\ stop_in_sleep' = (stop_in_sleep \/ (pc = "wait" /\ ~wait_expired))
    /\ stop_in_poll' = (stop_in_poll \/ FetchInFlight)
    /\ UNCHANGED <<settings_file, monitorVars, loopVars, poll, state_data,
                   errs_since_success, upd, rc_in_sleep, rc_in_poll>>
    /\ UNCHANGED <<subsVars, probe>>

\* stop(), line 51: self._force_poll.set()
StopSetForce ==
    /\ stop_pc = "set_force"
    /\ force_poll' = TRUE
    /\ stop_pc' = "join"
    /\ stop_in_sleep' = (stop_in_sleep \/ (pc = "wait" /\ ~wait_expired))
    /\ stop_in_poll' = (stop_in_poll \/ FetchInFlight)
    /\ UNCHANGED <<settings_file, interval, stop_event, loopVars, poll, state_data,
                   errs_since_success, upd, rc_in_sleep, rc_in_poll>>
    /\ UNCHANGED <<subsVars, probe>>

\* stop(), lines 52-54: the join ends (thread over, or 5 s gone) and stop returns
StopJoin ==
    /\ stop_pc = "join"
    /\ stop_pc' = "idle"
    /\ UNCHANGED <<settings_file, monitorVars, loopVars, poll, state_data,
                   histVars>>
    /\ UNCHANGED <<subsVars, probe>>

\* variant: reconnect() logs the request and sets nothing
Reconnect_NoSignal ==
    /\ rc_in_sleep' = (rc_in_sleep \/ Blocked)
    /\ rc_in_poll' = (rc_in_poll \/ FetchInFlight)
    /\ UNCHANGED stop_in_poll
    /\ UNCHANGED <<settings_file, monitorVars, loopVars, poll, state_data,
                   stop_pc, errs_since_success, upd, stop_in_sleep>>
    /\ UNCHANGED <<subsVars, probe>>

\* variant: reconnect() also puts the consecutive-error counter back to 0
Reconnect_ResetsBackoff ==
    /\ force_poll' = TRUE
    /\ consecutive_errors' = 0
    /\ rc_in_sleep' = (rc_in_sleep \/ Blocked)
    /\ rc_in_poll' = (rc_in_poll \/ FetchInFlight)
    /\ UNCHANGED stop_in_poll
    /\ UNCHANGED <<settings_file, interval, stop_event, pc, sleep_time,
                   wait_expired, wake_reason, poll, state_data,
                   stop_pc, errs_since_success, upd, stop_in_sleep>>
    /\ UNCHANGED <<subsVars, probe>>

\* reconnect()
Reconnect ==
    /\ force_poll' = TRUE
    /\ rc_in_sleep' = (rc_in_sleep \/ Blocked)
    /\ rc_in_poll' = (rc_in_poll \/ FetchInFlight)
    /\ UNCHANGED stop_in_poll
    /\ UNCHANGED <<settings_file, interval, stop_event, loopVars, poll, state_data,
                   stop_pc, errs_since_success, upd, stop_in_sleep>>
    /\ UNCHANGED <<subsVars, probe>>

\* variant: the new interval also replaces the timeout of the wait in progress
UpdateInterval_Resleep(n) ==
    /\ interval' = n
    /\ sleep_time' = IF pc = "wait" THEN n ELSE sleep_time
    /\ upd' = [n |-> n, age |-> 0, in_sleep |-> (pc = "wait")]
    /\ UNCHANGED <<settings_file, stop_event, force_poll, pc, consecutive_errors,
                   wait_expired, wake_reason, poll, state_data, stop_pc,
                   errs_since_success, rc_in_sleep, rc_in_poll, stop_in_poll, stop_in_sleep>>
    /\ UNCHANGED <<subsVars, probe>>

\* update_interval(n)
UpdateInterval(n) ==
    /\ interval' = n
    /\ upd' = [n |-> n, age |-> 0, in_sleep |-> (pc = "wait")]
    /\ UNCHANGED <<settings_file, stop_event, force_poll, loopVars, poll,
                   state_data, stop_pc, errs_since_success, rc_in_sleep, rc_in_poll, stop_in_poll,
                   stop_in_sleep>>
    /\ UNCHANGED <<subsVars, probe>>

\* settings.save({"poll_interval": n}) by the settings window or the wizard
SaveSettings(n) ==
    /\ settings_file' = n
    /\ UNCHANGED <<monitorVars, loopVars, poll, state_data, stop_pc, histVars>>
    /\ UNCHANGED <<subsVars, probe>>

\* ------------------------------------------------------------ specification
Next ==
    \/ Start
    \/ StopSetStop
    \/ StopSetForce
    \/ StopJoin
    \/ Reconnect
    \/ \E n \in Intervals : UpdateInterval(n)
    \/ \E n \in Intervals : SaveSettings(n)
    \/ LoopTop
    \/ PollHealth("loop")
    \/ PollReadToken("loop")
    \/ PollFetch("loop")
    \/ PollRetryElapse("loop")
    \/ PollRetrySleep("loop")
    \/ PollRetryRead("loop")
    \/ PollRetryFetch("loop")
    \/ PollPublish("loop")
    \/ PollNotify("loop")
    \/ LoopClassify
    \/ LoopCrash
    \/ LoopLoadSettings
    \/ LoopComputeSleep
    \/ LoopClear
    \/ TimePasses
    \/ LoopWaitReturn
    \/ LoopCheckStop

Spec == Init /\ [][Next]_vars

\* ------------------------------------------------- SharedState on its own
\* snapshots handed to update()
UpdateInputs == {ErrorData(NO_TOKEN_ERROR), UsageData(None, 42)}

\* a poll_once of caller c has reached its self._state.update(data), lines 81,
\* 88, 120: the monitor thread, or the UI thread that app.py line 92 sends
\* into poll_once
CallUpdate(c, data) ==
    /\ poll[c].pc = "idle"
    /\ poll' = [poll EXCEPT ![c] = [IdlePoll EXCEPT !.pc = "publish",
                                                    !.data = data]]
    /\ UNCHANGED <<settings_file, monitorVars, loopVars, state_data, stop_pc,
                   histVars>>
    /\ UNCHANGED <<subsVars, probe>>

\* line 121: poll_once has returned to its caller, or has raised into it, and
\* its frame is gone
PollReturn(c) ==
    /\ poll[c].pc \in {"returned", "raised"}
    /\ poll' = [poll EXCEPT ![c] = IdlePoll]
    /\ UNCHANGED <<settings_file, monitorVars, loopVars, state_data, stop_pc,
                   histVars>>
    /\ UNCHANGED <<subsVars, probe>>

NextShared ==
    \/ \E c \in Callers, data \in UpdateInputs : CallUpdate(c, data)
    \/ \E c \in Callers : PollPublish(c)
    \/ \E c \in Callers : PollNotify(c)
    \/ \E c \in Callers : PollReturn(c)
    \/ Get
    \/ \E kind \in CallbackKinds : OnChange(kind)

\* SharedState as app.py builds it, the poll interval at its default
InitShared ==
    /\ Init
    /\ settings_file = POLL_INTERVAL_SECONDS
    /\ interval = POLL_INTERVAL_SECONDS

SpecShared == InitShared /\ [][NextShared]_vars

\* a step of the monitor thread: of _run, of the poll_once it calls, or the
\* passing of the timeout of its wait
LoopStep ==
    \/ LoopTop
    \/ PollHealth("loop")
    \/ PollReadToken("loop")
    \/ PollFetch("loop")
    \/ PollRetryElapse("loop")
    \/ PollRetrySleep("loop")
    \/ PollRetryRead("loop")
    \/ PollRetryFetch("loop")
    \/ PollPublish("loop")
    \/ PollNotify("loop")
    \/ LoopClassify
    \/ LoopCrash
    \/ LoopLoadSettings
    \/ LoopComputeSleep
    \/ LoopClear
    \/ TimePasses
    \/ LoopWaitReturn
    \/ LoopCheckStop

\* ------------------------------------------- poll_once called directly
\* app.py line 92: the UI thread enters poll_once on its own
DirectBegin ==
    /\ poll["direct"].pc = "idle"
    /\ poll' = PollBegin("direct")
    /\ UNCHANGED <<settings_file, monitorVars, loopVars, state_data, stop_pc,
                   histVars>>
    /\ UNCHANGED <<subsVars, probe>>

\* the monitor thread and direct calls of poll_once, the control surface unused
NextDirect ==
    \/ Start
    \/ (consecutive_errors < MaxDirectErrors /\ LoopTop)
    \/ PollHealth("loop")
    \/ PollReadToken("loop")
    \/ PollFetch("loop")
    \/ PollRetryElapse("loop")
    \/ PollRetrySleep("loop")
    \/ PollRetryRead("loop")
    \/ PollRetryFetch("loop")
    \/ PollPublish("loop")
    \/ PollNotify("loop")
    \/ LoopClassify
    \/ LoopCrash
    \/ LoopLoadSettings
    \/ LoopComputeSleep
    \/ LoopClear
    \/ TimePasses
    \/ LoopWaitReturn
    \/ LoopCheckStop
    \/ DirectBegin
    \/ PollHealth("direct")
    \/ PollReadToken("direct")
    \/ PollFetch("direct")
    \/ PollRetryElapse("direct")
    \/ PollRetrySleep("direct")
    \/ PollRetryRead("direct")
    \/ PollRetryFetch("direct")
    \/ PollPublish("direct")
    \/ PollNotify("direct")
    \/ PollReturn("direct")

SpecDirect == InitShared /\ [][NextDirect]_vars

\* ------------------------------------------------------------- fairness
\* a step of a stop() that has been entered
StopStep == StopSetForce \/ StopJoin

\* the monitor with start, stop and reconnect, the poll interval left alone
NextLive ==
    \/ Start
    \/ StopSetStop
    \/ StopSetForce
    \/ StopJoin
    \/ Reconnect
    \/ LoopStep

\* the threads keep running: a fetch in flight returns, a timeout runs out, a
\* join ends
SpecLive ==
    Init /\ [][NextLive]_vars /\ WF_vars(LoopStep) /\ WF_vars(StopStep)

\* ------------------------------------------- auth and usage_api on their own
\* expiry timestamps and clock readings reach MaxMinutes minutes
MaxMinutes == 12

\* auth.py line 20: the lead before expiry, in milliseconds
_EXPIRY_BUFFER_MS == 300000

\* auth.py lines 80, 83: milliseconds in a minute
MS_PER_MINUTE == 60000

\* values of the expiresAt field, in milliseconds
ExpiryValues == {m * MS_PER_MINUTE : m \in 0..MaxMinutes}

\* int(time.time() * 1000): on a minute and one millisecond past it
ClockReadings == {m * MS_PER_MINUTE + d : m \in 0..MaxMinutes, d \in {0, 1}}

\* the credentials file: not there, not JSON, or a JSON object whose
\* claudeAiOauth holds an accessToken or not and an expiresAt that is absent,
\* a number, or a text int() does not parse
CredentialStores ==
    [kind : {"no_file", "corrupt"}]
    \cup [kind : {"json"}, token : BOOLEAN, expiry : {"absent", "text"},
          expiresAt : {0}]
    \cup [kind : {"json"}, token : BOOLEAN, expiry : {"number"},
          expiresAt : ExpiryValues]

\* auth.check_token_health, the status of the pair it returns
check_token_health(store, now_ms) ==
    IF store.kind = "no_file" THEN "missing"
    ELSE IF store.kind = "corrupt" THEN "missing"
    ELSE IF ~store.token THEN "missing"
    \* if not expires_at: None and 0 are both false
    ELSE IF store.expiry = "absent" THEN "ok"
    ELSE IF store.expiry = "number" /\ store.expiresAt = 0 THEN "ok"
    \* int(expires_at) raises ValueError
    ELSE IF store.expiry = "text" THEN "ok"
    ELSE IF now_ms > store.expiresAt THEN "expired"
    ELSE IF now_ms > store.expiresAt - _EXPIRY_BUFFER_MS THEN "expiring"
    ELSE "ok"

\* HTTP statuses, URLError reasons and utilization values put to fetch_usage
ProbeCodes == {400, 401, 403, 404, 429, 500, 502, 503}

REASON_CERT_LOWER == <<"c","e","r","t","i","f","i","c","a","t","e"," ","v","e","r","i","f","y"," ","f","a","i","l","e","d">>

REASON_REFUSED == <<"C","o","n","n","e","c","t","i","o","n"," ","r","e","f","u","s","e","d">>

ProbeReasons == Reasons \cup {REASON_CERT_LOWER, REASON_REFUSED}

ProbeUtilizations == {0, 42, 100, 150}

ProbeOutcomes ==
    [kind : {"http_error"}, code : ProbeCodes]
    \cup [kind : {"url_error"}, reason : ProbeReasons]
    \cup [kind : {"exception"}]
    \cup [kind : {"body"}, utilization : ProbeUtilizations]
    \cup [kind : {"bad_body"}]

\* consecutive-error counts put to the sleep computation
MaxCount == 10

\* base intervals put to the sleep computation: those the settings window
\* offers (settings_ui.POLL_OPTIONS), the test's 5, and values around the cap
ProbeBases == {1, 5, 15, 30, 60, 120, 299, 300, 301, 600}

\* one call about to be made
Probes ==
    [fn : {"check_token_health"}, store : CredentialStores,
     now_ms : ClockReadings, state : {"called"}, out : {"none"}]
    \cup [fn : {"fetch_usage"}, outcome : ProbeOutcomes, state : {"called"},
          out : {DefaultData}]
    \cup [fn : {"sleep_time"}, base : ProbeBases, count : 0..MaxCount,
          state : {"called"}, out : {0}]

\* status, _ = check_token_health()
ApplyCheckTokenHealth ==
    /\ probe.fn = "check_token_health"
    /\ probe.state = "called"
    /\ probe' = [probe EXCEPT !.state = "returned",
                              !.out = check_token_health(probe.store, probe.now_ms)]
    /\ UNCHANGED <<settings_file, monitorVars, loopVars, poll, state_data,
                   stop_pc, histVars, subsVars>>

\* data = fetch_usage(token)
ApplyFetchUsage ==
    /\ probe.fn = "fetch_usage"
    /\ probe.state = "called"
    /\ probe' = IF FetchRaises(probe.outcome)
                THEN [probe EXCEPT !.state = "raised"]
                ELSE [probe EXCEPT !.state = "returned",
                                   !.out = fetch_usage(probe.outcome)]
    /\ UNCHANGED <<settings_file, monitorVars, loopVars, poll, state_data,
                   stop_pc, histVars, subsVars>>

\* _run lines 142-144 for one base interval and one count
ApplySleepTime ==
    /\ probe.fn = "sleep_time"
    /\ probe.state = "called"
    /\ probe' = [probe EXCEPT !.state = "returned",
                              !.out = SleepTime(probe.base, probe.count)]
    /\ UNCHANGED <<settings_file, monitorVars, loopVars, poll, state_data,
                   stop_pc, histVars, subsVars>>

NextPure ==
    \/ ApplyCheckTokenHealth
    \/ ApplyFetchUsage
    \/ ApplySleepTime

\* the monitor not started; one call with its arguments
InitPure ==
    /\ InitMonitor
    /\ settings_file = POLL_INTERVAL_SECONDS
    /\ interval = POLL_INTERVAL_SECONDS
    /\ probe \in Probes

SpecPure == InitPure /\ [][NextPure]_vars

\* ------------------------------------------------- the settings file as input
\* values of "poll_interval" in settings.json when the application starts:
\* settings.load copies the value of a known key as it finds it
FileIntervals == Intervals \cup {0}

\* app.py lines 85-88: the monitor is built with the value load() returned,
\* and __init__ line 37 puts the default in place of a false one
InitConfig ==
    /\ settings_file \in FileIntervals
    /\ InitMonitor
    /\ interval = (IF settings_file # 0 THEN settings_file
                   ELSE POLL_INTERVAL_SECONDS)
    /\ probe = NoProbe

SpecConfig == InitConfig /\ [][NextLive]_vars

\* ================================================================ claims
\* what one call of poll_once published, once it has returned
Returned(c) == poll[c].pc = "returned"

\* error strings fetch_usage can return
ClientErrors ==
    {fetch_usage(o).error : o \in {t \in TransportOutcomes : ~FetchRaises(t)}}
        \ {None}

Unauthorized == ErrorData(<<"H","T","T","P"," ","4","0","1">>)

\* C1: the sleep computed after a cycle is the base interval while the
\* consecutive-error count is at most 3 and min(base * 2^(count-3), 300) above
\* 3; with base 30 the counts 4, 5, 6, 7 give 60, 120, 240, 300.
C1_BackoffSleep ==
    [][(pc = "compute" /\ pc' = "clear") =>
         /\ consecutive_errors <= 3 => sleep_time' = interval
         /\ consecutive_errors > 3 =>
               LET doubled == interval * 2 ^ (consecutive_errors - 3)
               IN  sleep_time' = IF doubled <= 300 THEN doubled ELSE 300
         /\ interval = 30 =>
               /\ consecutive_errors = 4 => sleep_time' = 60
               /\ consecutive_errors = 5 => sleep_time' = 120
               /\ consecutive_errors = 6 => sleep_time' = 240
               /\ consecutive_errors = 7 => sleep_time' = 300
       ]_vars

C1_Witness ==
    pc = "clear" /\ interval = 30 /\ consecutive_errors = 7 /\ sleep_time = 300

\* C2: outside the moment between a publication and the counter update that
\* follows it, the consecutive-error counter equals the number of error
\* snapshots the loop published since its last success, the missing-credential
\* error included.
C2_CounterCountsErrors ==
    ~Returned("loop") => consecutive_errors = errs_since_success

C2_Witness ==
    /\ pc = "load"
    /\ consecutive_errors = 2
    /\ state_data = ErrorData(NO_TOKEN_ERROR)

\* C3: a poll_once whose fetches answered 401, 401, success (a token read
\* each time) published exactly one snapshot, the success, and returned it.
C3_RetryRecovers ==
    \A c \in Callers :
        (/\ Returned(c)
         /\ poll[c].reads = <<TRUE, TRUE, TRUE>>
         /\ Len(poll[c].fetches) = 3
         /\ poll[c].fetches[1] = Unauthorized
         /\ poll[c].fetches[2] = Unauthorized
         /\ ~Truthy(poll[c].fetches[3].error))
        => /\ poll[c].pubs = <<poll[c].fetches[3]>>
           /\ poll[c].data = poll[c].fetches[3]
           /\ poll[c].data.error = None

C3_Witness ==
    /\ Returned("loop")
    /\ poll["loop"].reads = <<TRUE, TRUE, TRUE>>
    /\ Len(poll["loop"].fetches) = 3
    /\ poll["loop"].fetches[1] = Unauthorized
    /\ poll["loop"].fetches[2] = Unauthorized
    /\ poll["loop"].fetches[3].error = None
    /\ state_data = poll["loop"].fetches[3]

\* C4: a poll_once whose initial fetch and both retries answered 401 published
\* the reconnect error, which is none of the errors of the usage client and
\* not the missing-credential error.
C4_RetriesExhausted ==
    \A c \in Callers :
        (/\ Returned(c)
         /\ poll[c].fetches = <<Unauthorized, Unauthorized, Unauthorized>>)
        => /\ poll[c].pubs = <<ErrorData(RECONNECT_ERROR)>>
           /\ poll[c].data = ErrorData(RECONNECT_ERROR)
           /\ poll[c].data.error \notin ClientErrors \cup {NO_TOKEN_ERROR}

C4_Witness ==
    /\ Returned("loop")
    /\ poll["loop"].fetches = <<Unauthorized, Unauthorized, Unauthorized>>
    /\ state_data = ErrorData(RECONNECT_ERROR)

\* C5: when the health is `missing`, or the first token read returns no
\* token, poll_once publishes and returns the missing-credential error and
\* never calls the usage client.
C5_MissingCredential ==
    \A c \in Callers :
        (\/ poll[c].health = "missing"
         \/ (poll[c].reads # <<>> /\ ~poll[c].reads[1]))
        => /\ poll[c].calls = 0
           /\ poll[c].fetches = <<>>
           /\ poll[c].pc \in {"publish", "notify", "returned"}
           /\ poll[c].data = ErrorData(NO_TOKEN_ERROR)
           /\ Returned(c) => poll[c].pubs = <<ErrorData(NO_TOKEN_ERROR)>>

C5_Witness ==
    /\ Returned("loop")
    /\ poll["loop"].health = "missing"
    /\ poll["loop"].calls = 0
    /\ state_data = ErrorData(NO_TOKEN_ERROR)

\* C6: with health `expired` or `expiring` poll_once still reads the token
\* and, a token being returned, calls the usage client and publishes what the
\* client answered (a 401 answer goes through the retries first).
C6_ExpiredStillPolls ==
    \A c \in Callers :
        poll[c].health \in {"expired", "expiring"} =>
            /\ poll[c].pc \notin {"health", "read"} => Len(poll[c].reads) >= 1
            /\ (Returned(c) /\ poll[c].reads[1]) =>
                  /\ poll[c].calls >= 1
                  /\ Len(poll[c].fetches) >= 1
                  /\ ~Is401(poll[c].fetches[1]) =>
                        poll[c].pubs = <<poll[c].fetches[1]>>
                  /\ poll[c].pubs = <<poll[c].data>>

C6_Witness ==
    /\ Returned("loop")
    /\ poll["loop"].health = "expired"
    /\ poll["loop"].reads = <<TRUE>>
    /\ poll["loop"].calls = 1
    /\ poll["loop"].pubs = <<UsageData(None, 42)>>

\* C7: a reconnect() that finds the loop blocked in its wait ends the wait by
\* the signal, the timeout not having elapsed, and with no stop requested the
\* loop goes from there straight to the next poll_once.
C7_ReconnectEndsSleep ==
    [][rc_in_sleep =>
         /\ pc \in {"wait", "check", "top"}
         /\ pc = "wait" => force_poll /\ ~wait_expired
         /\ (pc = "wait" /\ pc' # pc) => pc' = "check" /\ wake_reason' = "signal"
         /\ pc = "check" => wake_reason = "signal"
         /\ (pc = "check" /\ pc' # pc /\ ~stop_event) => pc' = "top"
         /\ (pc = "top" /\ pc' # pc /\ ~stop_event) =>
               pc' = "polling" /\ poll'["loop"].pc = "health"
       ]_vars

C7_Witness ==
    /\ rc_in_sleep
    /\ pc = "top"
    /\ wake_reason = "signal"
    /\ ~stop_event

\* C8: the sleep computed in the cycle that follows update_interval(n) on a
\* running monitor uses n as its base.
C8_UpdateTakesEffect ==
    (pc \in {"clear", "wait"} /\ upd.age = 1) =>
        sleep_time = SleepTime(upd.n, consecutive_errors)

\* C9: update_interval called while the loop is in its wait changes neither
\* the timeout of that wait nor whether it has elapsed, and does not end it.
C9_UpdateKeepsSleep ==
    [][(pc = "wait" /\ (interval' # interval \/ (upd' # upd /\ upd'.in_sleep))) =>
         /\ sleep_time' = sleep_time
         /\ wait_expired' = wait_expired
         /\ force_poll' = force_poll
         /\ pc' = "wait"
       ]_vars

C9_Witness ==
    /\ pc = "wait"
    /\ upd.in_sleep
    /\ consecutive_errors <= 3
    /\ upd.n = 5
    /\ interval = 5
    /\ sleep_time = 30

\* C10: a stop() that signals the loop while it is blocked in its wait ends
\* the wait by the signal, the timeout not having elapsed, and the loop then
\* exits; whenever the loop reads the stop event set it exits, so no
\* poll_once begins after that.
C10_StopEndsSleep ==
    [][/\ stop_in_sleep =>
            /\ stop_event
            /\ pc \in {"wait", "check", "done"}
            /\ pc = "wait" => force_poll /\ ~wait_expired
            /\ (pc = "wait" /\ pc' # pc) => pc' = "check" /\ wake_reason' = "signal"
            /\ (pc = "check" /\ pc' # pc) => pc' = "done"
       /\ (stop_event /\ pc \in {"top", "check"} /\ pc' # pc) =>
            pc' = "done" /\ poll'["loop"].pc = "idle"
       /\ (pc = "done" /\ pc' # pc) => pc' = "top" /\ stop_event'
       ]_vars

C10_Witness ==
    /\ stop_in_sleep
    /\ pc = "done"
    /\ wake_reason = "signal"

\* C12: no cycle ends in a raised exception: poll_once never raises and the
\* monitor thread never ends by an exception, whatever the token source, the
\* usage client or the body of the response do.
C12_NoCycleRaises ==
    /\ pc # "crashed"
    /\ \A c \in Callers : poll[c].pc # "raised"

C11_StopReturnsLoopStops ==
    /\ (stop_pc # "idle") ~> (stop_pc = "idle")
    /\ (stop_pc = "set_force") ~> ~Running

\* stop() has returned and the loop is still in its sleep, the signal gone
C11_Witness ==
    /\ stop_pc = "idle"
    /\ stop_event
    /\ pc = "wait"
    /\ ~force_poll
    /\ ~wait_expired

\* C13: update(s) stores s before it calls anything, then calls every
\* registered callback with s, the failing ones included: a callback that
\* raises does not end the iteration, leaves the stored snapshot alone, and
\* nothing is raised out of update.
C13_UpdateNotifiesAll ==
    /\ [](\A c \in Callers :
            /\ poll[c].pc \in {"notify", "returned"} =>
                  /\ poll[c].pubs = <<poll[c].data>>
                  /\ Len(poll[c].sent) = poll[c].idx - 1
                  /\ \A k \in DOMAIN poll[c].sent : poll[c].sent[k] = poll[c].data
            /\ poll[c].pc = "raised" => poll[c].pubs = <<>>)
    /\ [][\A c \in Callers :
            /\ (poll[c].pc = "publish" /\ poll'[c].pc # "publish") =>
                  /\ state_data' = poll[c].data
                  /\ poll'[c].sent = <<>>
            /\ (/\ poll[c].pc = "notify"
                /\ (poll'[c].idx # poll[c].idx \/ poll'[c].pc # "notify")) =>
                  /\ state_data' = state_data
                  /\ poll'[c].pc = "returned" =>
                        Len(poll[c].sent) = Len(callbacks)]_vars

\* an update has returned after a failing callback and the one behind it
C13_Witness ==
    /\ Returned("direct")
    /\ callbacks = <<"fail", "ok">>
    /\ poll["direct"].sent = <<UsageData(None, 42), UsageData(None, 42)>>
    /\ state_data = UsageData(None, 42)

\* a step in which the update() of caller c calls the callback at index k
Delivers(c, k) ==
    /\ poll[c].pc = "notify"
    /\ poll[c].idx = k
    /\ k <= Len(callbacks)
    /\ poll'[c].idx = k + 1

\* C14: a callback is never called with a snapshot that was stored before
\* the one it was called with last: no update() whose swap has been followed
\* by the swap of another snapshot calls a callback that has already been
\* called with the snapshot stored last.
C14_StoredOrder ==
    [][\A c \in Callers : \A k \in DOMAIN callbacks :
          Delivers(c, k) =>
              ~(poll[c].superseded /\ fresh[k] /\ poll[c].data # stored_arg)]_vars

\* a step in which a get() returns
GetReturns == got' # got \/ (dirty /\ ~dirty')

\* C15: while an update() calls its callbacks nobody holds the lock, so a
\* get() can go ahead, whoever calls it; and a get() made at that time returns
\* the snapshot that update() stored or, another update() having swapped
\* since, the one stored last.
C15_LockOnlyForSwap ==
    /\ []((\E c \in Callers : poll[c].pc = "notify") =>
            (lock = "free" /\ ENABLED Get))
    /\ [][GetReturns =>
            /\ got'.data = stored_arg
            /\ \A c \in Callers :
                  (poll[c].pc = "notify" /\ ~poll[c].superseded) =>
                      got'.data = poll[c].data]_vars

\* an update() is past its first callback and a get() made since its swap
\* has returned its snapshot
C15_Witness ==
    /\ poll["loop"].pc = "notify"
    /\ poll["loop"].idx = 2
    /\ ~poll["loop"].superseded
    /\ got.valid
    /\ ~dirty
    /\ got.data = ErrorData(NO_TOKEN_ERROR)
    /\ poll["loop"].data = ErrorData(NO_TOKEN_ERROR)

\* C16: an update() calls no callback that was registered after its swap: a
\* callback registered while the update is in progress waits for the next one.
C16_LateCallbackWaits ==
    [][\A c \in Callers : \A k \in DOMAIN callbacks :
          Delivers(c, k) => k <= poll[c].n_at_swap]_vars

\* what update() has ever been given, and the default
Snapshots == UpdateInputs \cup {DefaultData}

\* C17: SharedState holds, and get() returns, the argument of the update()
\* that swapped last (stored_arg, which is the default while none has), as a
\* whole: the default or one snapshot that was handed to update(), never a
\* mix of two.
C17_GetReturnsLastSwap ==
    /\ [](state_data = stored_arg /\ state_data \in Snapshots)
    /\ [][GetReturns => (got'.data = stored_arg /\ got'.data \in Snapshots)]_vars

\* a get() has returned the usage snapshot the one callback was called with
\* last, no update() being in progress
C17_Witness ==
    /\ got.valid
    /\ ~dirty
    /\ got.data = UsageData(None, 42)
    /\ \A c \in Callers : poll[c].pc = "idle"
    /\ fresh = <<TRUE>>

\* C18: a get() that follows another get() with no swap in between returns
\* the same snapshot, and a get() changes neither the held snapshot nor the
\* list of callbacks.
C18_GetIsPure ==
    [][GetReturns =>
         /\ state_data' = state_data
         /\ callbacks' = callbacks
         /\ (got.valid /\ ~dirty) => got'.data = got.data]_vars

\* two get() calls in a row, after an update() to registered callbacks
C18_Witness ==
    /\ got.again
    /\ ~dirty
    /\ got.data = ErrorData(NO_TOKEN_ERROR)
    /\ state_data = ErrorData(NO_TOKEN_ERROR)
    /\ Len(callbacks) = MaxCallbacks

\* a step of the poll_once that was called directly
DirectStep ==
    \/ poll'["direct"].pc # poll["direct"].pc
    \/ poll'["direct"].idx # poll["direct"].idx

\* C19: no step of a directly called poll_once changes the consecutive-error
\* counter or the sleep duration of the loop; whatever such calls publish,
\* the counter stays the number of error snapshots the loop itself published
\* since its last success, and the sleep is computed from that number.
C19_DirectPollLeavesLoop ==
    /\ [][DirectStep => UNCHANGED <<consecutive_errors, sleep_time>>]_vars
    /\ [](~Returned("loop") => consecutive_errors = errs_since_success)
    /\ [][(pc = "compute" /\ pc' = "clear") =>
            sleep_time' = SleepTime(interval, errs_since_success)]_vars

\* the loop has counted its own error and computed its sleep while what
\* SharedState holds is the success a direct poll_once published and returned
C19_Witness ==
    /\ pc = "clear"
    /\ consecutive_errors = 1
    /\ sleep_time = interval
    /\ Returned("direct")
    /\ poll["direct"].data = UsageData(None, 42)
    /\ state_data = UsageData(None, 42)

\* a snapshot is a reading without an error, or an error marker whose usage
\* is at its default
WellFormed(d) ==
    \/ d.error = None
    \/ (Truthy(d.error) /\ d.five_hour = DefaultData.five_hour)

\* C21: what SharedState holds, and every snapshot a poll_once has handed
\* to update, is a reading with no error or an error marker with its usage
\* at the default, never an error together with usage.
C21_ErrorOrData ==
    /\ WellFormed(state_data)
    /\ \A c \in Callers : \A k \in DOMAIN poll[c].pubs : WellFormed(poll[c].pubs[k])

\* the loop has published the error marker of a failed connection
C21_Witness ==
    /\ Returned("loop")
    /\ poll["loop"].pubs = <<UsageData(CONNECTION_FAILED, 0)>>
    /\ state_data = UsageData(CONNECTION_FAILED, 0)

\* C26: a poll_once calls the usage client at most 3 times; every call sends
\* the token of a read that returned one; a call after the first follows an
\* unauthorized answer and sends the token of a read made after the delay
\* of its own attempt: a later read than that of the call before, with only
\* reads that returned no token in between.
C26_RetriesBounded ==
    \A c \in Callers :
        LET f == poll[c] IN
        /\ f.calls <= 3
        /\ f.calls <= 1 + _AUTH_MAX_RETRIES
        /\ Len(f.used) = f.calls
        /\ \A j \in DOMAIN f.used :
              /\ f.used[j] \in DOMAIN f.reads
              /\ f.reads[f.used[j]]
              /\ j = 1 => f.used[j] = 1
              /\ j > 1 => /\ Is401(f.fetches[j - 1])
                          /\ f.used[j] > f.used[j - 1]
                          /\ f.used[j] >= 2
                          /\ \A i \in DOMAIN f.reads :
                                (f.used[j - 1] < i /\ i < f.used[j]) => ~f.reads[i]

\* a poll_once whose first retry found no token and whose second retry sent
\* the token of the third read
C26_Witness ==
    /\ Returned("loop")
    /\ poll["loop"].reads = <<TRUE, FALSE, TRUE>>
    /\ poll["loop"].used = <<1, 3>>
    /\ poll["loop"].calls = 2

\* C29: the consecutive-error counter changes only when a cycle's poll_once
\* has returned, and then by one step, to count + 1 or to 0, however many
\* retries the poll made (a new run of the loop starts it at 0); and the delay
\* of every retry is the fixed retry delay, whatever the counter and the
\* sleep of the loop are.
C29_RetryAndBackoffApart ==
    /\ [][consecutive_errors' # consecutive_errors =>
            \/ /\ pc = "polling"
               /\ pc' = "load"
               /\ Returned("loop")
               /\ consecutive_errors' \in {consecutive_errors + 1, 0}
            \/ /\ pc' = "top"
               /\ ~Running
               /\ consecutive_errors' = 0]_vars
    /\ [](\A c \in Callers :
            poll[c].pc = "retry_sleep" => poll[c].delay = _AUTH_RETRY_DELAY)

\* the second retry delay of a cycle that started with the counter at 5,
\* where the sleep of the loop is four times its base
C29_Witness ==
    /\ pc = "polling"
    /\ consecutive_errors = 5
    /\ SleepTime(interval, consecutive_errors) = 4 * interval
    /\ poll["loop"].pc = "retry_sleep"
    /\ poll["loop"].attempt = 2
    /\ poll["loop"].delay = 5

\* C28: a wait of the monitor thread ends as soon as its signal is set,
\* its timeout not yet over: with the force-poll event set the inter-cycle
\* wait can return, and with the events that stop() sets the delay between
\* two unauthorized retries can return.
C28_WaitsEndOnSignal ==
    /\ (pc = "wait" /\ force_poll) => ENABLED LoopWaitReturn
    /\ (/\ pc = "polling"
        /\ poll["loop"].pc = "retry_sleep"
        /\ stop_event
        /\ force_poll) => ENABLED PollRetrySleep("loop")

C30_ReconnectInPollKept ==
    [][(pc = "wait" /\ pc' = "check" /\ rc_in_poll /\ ~stop_event)
          => wake_reason' = "signal"]_vars

\* C22 (does not hold): for every successful fetch, whatever utilization the
\* response carries, the snapshot has no error and its utilization lies in
\* [0,100]
C22_UtilizationInRange ==
    (probe.fn = "fetch_usage" /\ probe.state = "returned"
        /\ probe.outcome.kind = "body")
    => (probe.out.error = None /\ probe.out.five_hour \in 0..100)

\* C24 (does not hold): check_token_health gives missing when the file or the
\* token is absent or the file does not parse; with a token and an expiry E
\* (0 included) and the clock at T it gives expired when T is past E,
\* expiring when T is within the 5 minutes before E and ok when T is
\* earlier; with a token and no expiry it gives ok
C24_HealthClassification ==
    (probe.fn = "check_token_health" /\ probe.state = "returned")
    => LET s == probe.store
           T == probe.now_ms
       IN  IF s.kind # "json" THEN probe.out = "missing"
           ELSE IF ~s.token THEN probe.out = "missing"
           ELSE IF s.expiry = "absent" THEN probe.out = "ok"
           ELSE IF s.expiry = "number"
           THEN probe.out = IF T > s.expiresAt THEN "expired"
                            ELSE IF T > s.expiresAt - 5 * MS_PER_MINUTE
                            THEN "expiring"
                            ELSE "ok"
           ELSE probe.out \in HealthStatuses

DigitValue(ch) ==
    CASE ch = "0" -> 0 [] ch = "1" -> 1 [] ch = "2" -> 2 [] ch = "3" -> 3
      [] ch = "4" -> 4 [] ch = "5" -> 5 [] ch = "6" -> 6 [] ch = "7" -> 7
      [] ch = "8" -> 8 [] ch = "9" -> 9 [] OTHER -> -1

\* the number a string of decimal digits reads as, -1 if it is none
RECURSIVE ParseInt(_)
ParseInt(s) ==
    IF Len(s) = 0 THEN -1
    ELSE IF DigitValue(s[Len(s)]) < 0 THEN -1
    ELSE IF Len(s) = 1 THEN DigitValue(s[1])
    ELSE LET front == ParseInt(SubSeq(s, 1, Len(s) - 1))
         IN  IF front < 0 THEN -1 ELSE 10 * front + DigitValue(s[Len(s)])

\* the error string is "HTTP " and then the number c, nothing else
ShowsOnlyNumber(e, c) ==
    /\ e # None
    /\ Len(e) > 5
    /\ SubSeq(e, 1, 5) = <<"H","T","T","P"," ">>
    /\ ParseInt(SubSeq(e, 6, Len(e))) = c

\* the word certificate stands in the reason, in capitals or not
MentionsCertificate(reason) ==
    LET word == <<"c","e","r","t","i","f","i","c","a","t","e">>
    IN  \E i \in 1..Len(reason) :
           /\ i + Len(word) - 1 <= Len(reason)
           /\ \A k \in 1..Len(word) : LowerChar(reason[i + k - 1]) = word[k]

\* C25: fetch_usage returns one snapshot for every outcome of the request: an
\* HTTP error status c gives the error that shows only the number c, a
\* URLError whose reason mentions a certificate gives "SSL certificate
\* error", every other URLError or exception gives "Connection failed", and
\* it returns no other error string
C25_TransportErrors ==
    probe.fn = "fetch_usage" =>
       LET o == probe.outcome
           e == probe.out.error
       IN  /\ probe.state = "raised"
                => o.kind \notin {"http_error", "url_error", "exception"}
           /\ probe.state = "returned" =>
                /\ o.kind = "http_error" => ShowsOnlyNumber(e, o.code)
                /\ o.kind = "url_error" =>
                      e = IF MentionsCertificate(o.reason) THEN SSL_ERROR
                          ELSE CONNECTION_FAILED
                /\ o.kind = "exception" => e = CONNECTION_FAILED
                /\ \/ e \in {None, SSL_ERROR, CONNECTION_FAILED}
                   \/ \E c \in ProbeCodes : ShowsOnlyNumber(e, c)

C25_Witness ==
    /\ probe.fn = "fetch_usage"
    /\ probe.state = "returned"
    /\ probe.outcome.kind = "url_error"
    /\ probe.outcome.reason = REASON_CERT
    /\ probe.out.error = SSL_ERROR

\* C23 (does not hold): in every cycle the base interval the sleep is computed
\* from is a positive whole number of seconds, the one read from the settings
\* in that cycle
C23_BaseIntervalPositive ==
    [][(pc = "compute" /\ pc' = "clear")
          => /\ interval = settings_file
             /\ interval \in Nat \ {0}
             /\ sleep_time' = SleepTime(interval, consecutive_errors)]_vars

\* C31 (does not hold): a stop() that signals while the loop's fetch is in flight
\* makes the loop exit once that poll is published: the sleep that follows
\* the poll is ended by the signal, it does not run to its timeout
C31_StopInPollKept ==
    [][(pc = "wait" /\ pc' = "check" /\ stop_in_poll)
          => wake_reason' = "signal"]_vars

\* C32 (does not hold): when the update() calls of the two threads have both
\* returned, the snapshot each subscriber was called with last is the one
\* get() returns. The last call of subscriber k came from the latest swap
\* (fresh[k]) or from the update() that swap left behind.
C32_LastDeliveredIsHeld ==
    (\A c \in Callers : Returned(c)) =>
       \A k \in DOMAIN callbacks :
          (\E c \in Callers : k <= Len(poll[c].sent)) =>
             \/ fresh[k] /\ stored_arg = state_data
             \/ /\ ~fresh[k]
                /\ \E c \in Callers :
                      poll[c].superseded /\ poll[c].data = state_data

\* C33 (does not hold): for every positive base interval and every
\* consecutive-error count the computed sleep is at least the base interval,
\* and it is no shorter than the sleep computed for one error fewer
C33_SleepAtLeastBase ==
    (probe.fn = "sleep_time" /\ probe.state = "returned" /\ probe.base > 0)
    => /\ probe.out >= probe.base
       /\ probe.count > 0 => probe.out >= SleepTime(probe.base, probe.count - 1)

\* C34: the stop event is never cleared, and once it is set the loop begins
\* no poll: a loop started after a stop() leaves at its first test of the
\* event
C34_StopStaysSet ==
    [][stop_event =>
          /\ stop_event'
          /\ ~(pc # "polling" /\ pc' = "polling")
          /\ (pc = "top" /\ pc' # "top") => pc' = "done"]_vars

\* a thread started after a stop() that had ended a run which published an
\* error: its counter is new, the stop event is still set
C34_Witness ==
    /\ pc = "top"
    /\ stop_event
    /\ stop_pc = "idle"
    /\ consecutive_errors = 0
    /\ Truthy(state_data.error)

\* C35: no snapshot handed to update() by poll_once, and so none that
\* SharedState holds, carries the unauthorized error of the usage client; a
\* poll_once that got an unauthorized answer published the answer of a later
\* fetch that was not unauthorized, or the reconnect error
C35_NoRaw401Published ==
    /\ state_data # Unauthorized
    /\ ~Is401(state_data)
    /\ \A c \in Callers :
          /\ \A i \in DOMAIN poll[c].pubs : ~Is401(poll[c].pubs[i])
          /\ Returned(c) =>
                \A i \in DOMAIN poll[c].fetches :
                   Is401(poll[c].fetches[i]) =>
                      \/ poll[c].pubs = <<ErrorData(RECONNECT_ERROR)>>
                      \/ \E j \in DOMAIN poll[c].fetches :
                            /\ j > i
                            /\ ~Is401(poll[c].fetches[j])
                            /\ poll[c].pubs = <<poll[c].fetches[j]>>

\* the first fetch and the first retry were unauthorized, the second retry
\* found no token: the reconnect error is what SharedState holds
C35_Witness ==
    /\ Returned("loop")
    /\ poll["loop"].reads = <<TRUE, TRUE, FALSE>>
    /\ poll["loop"].fetches = <<Unauthorized, Unauthorized>>
    /\ state_data = ErrorData(RECONNECT_ERROR)

ServerError == ErrorData(<<"H","T","T","P"," ","5","0","0">>)

\* C36: a retried fetch that returns a failure other than unauthorized is the
\* last fetch of its poll_once, whose retry loop is over at once, and that
\* failure is what the poll_once publishes and returns, as it is
C36_OtherFailureEndsRetries ==
    \A c \in Callers : \A i \in DOMAIN poll[c].fetches :
        (/\ i > 1
         /\ Truthy(poll[c].fetches[i].error)
         /\ ~Is401(poll[c].fetches[i]))
        => /\ i = Len(poll[c].fetches)
           /\ poll[c].calls = i
           /\ poll[c].pc \in {"publish", "notify", "returned"}
           /\ poll[c].data = poll[c].fetches[i]
           /\ poll[c].data # ErrorData(RECONNECT_ERROR)
           /\ Returned(c) => poll[c].pubs = <<poll[c].fetches[i]>>

C36_Witness ==
    /\ Returned("loop")
    /\ poll["loop"].attempt = 1
    /\ poll["loop"].fetches = <<Unauthorized, ServerError>>
    /\ state_data = ServerError

\* retries of a poll_once that found no token
NoTokenRetries(c) ==
    Cardinality({i \in DOMAIN poll[c].reads : i > 1 /\ ~poll[c].reads[i]})

\* C39: a retry whose re-read returns no token makes no fetch and is one of
\* the 2 attempts all the same; a poll_once whose first fetch was
\* unauthorized and whose retries both found no token publishes the
\* reconnect error, not the missing-credential error
C39_NoTokenRetryCounts ==
    \A c \in Callers :
        /\ Len(poll[c].reads) <= 1 + _AUTH_MAX_RETRIES
        /\ poll[c].calls + NoTokenRetries(c) <= 1 + _AUTH_MAX_RETRIES
        /\ poll[c].reads # <<>> => poll[c].attempt \in {Len(poll[c].reads) - 1,
                                                        Len(poll[c].reads)}
        /\ (/\ Returned(c)
            /\ poll[c].fetches # <<>>
            /\ Is401(poll[c].fetches[1])
            /\ \A i \in DOMAIN poll[c].reads : i > 1 => ~poll[c].reads[i])
           => /\ poll[c].reads = <<TRUE, FALSE, FALSE>>
              /\ poll[c].calls = 1
              /\ poll[c].pubs = <<ErrorData(RECONNECT_ERROR)>>
              /\ poll[c].data # ErrorData(NO_TOKEN_ERROR)

C39_Witness ==
    /\ Returned("loop")
    /\ poll["loop"].reads = <<TRUE, FALSE, FALSE>>
    /\ poll["loop"].calls = 1
    /\ state_data = ErrorData(RECONNECT_ERROR)

\* C37: the consecutive-error counter changes in one place only, where the
\* loop takes the result of a poll_once (and a new thread starts its own at
\* 0): a reconnect() leaves it as it is, and so does the wait that a
\* reconnect() ends, up to the next poll
C37_ReconnectKeepsCounter ==
    [][/\ (force_poll' /\ ~force_poll) => consecutive_errors' = consecutive_errors
       /\ rc_in_sleep' # rc_in_sleep => consecutive_errors' = consecutive_errors
       /\ consecutive_errors' # consecutive_errors =>
             \/ /\ pc = "polling"
                /\ Returned("loop")
                /\ pc' = "load"
                /\ consecutive_errors' =
                      (IF Truthy(poll["loop"].data.error)
                       THEN consecutive_errors + 1 ELSE 0)
             \/ ~Running /\ pc' = "top" /\ consecutive_errors' = 0]_vars

\* a reconnect() has ended a backed-off sleep, the counter is still 5
C37_Witness ==
    /\ rc_in_sleep
    /\ pc = "check"
    /\ wake_reason = "signal"
    /\ ~stop_event
    /\ consecutive_errors = 5

\* C38: no step takes a registration away or moves one: the callback list
\* only grows at its end; and an update() calls the registrations in the
\* order of the list, each of them once, a callback registered twice being
\* called once for each of its registrations
C38_RegistrationsKept ==
    /\ [][/\ Len(callbacks') >= Len(callbacks)
          /\ SubSeq(callbacks', 1, Len(callbacks)) = callbacks]_vars
    /\ [](\A c \in Callers :
            /\ poll[c].pc = "notify" => Len(poll[c].sent) = poll[c].idx - 1
            /\ \A k \in DOMAIN poll[c].sent : poll[c].sent[k] = poll[c].data)
    /\ [][\A c \in Callers :
            /\ \A k \in DOMAIN callbacks :
                  Delivers(c, k) => /\ Len(poll[c].sent) = k - 1
                                    /\ poll'[c].sent = Append(poll[c].sent, poll[c].data)
            /\ (poll[c].pc = "notify" /\ poll'[c].pc = "returned") =>
                  /\ Len(poll[c].sent) = Len(callbacks)
                  /\ poll'[c].sent = poll[c].sent]_vars

\* the same callback is registered twice and an update() has called it twice
C38_Witness ==
    /\ Returned("loop")
    /\ callbacks = <<"ok", "ok">>
    /\ poll["loop"].n_at_swap = 2
    /\ poll["loop"].sent = <<UsageData(None, 42), UsageData(None, 42)>>
====
